---- MODULE Spec2Model ----
(***************************************************************************)
(* State-machine model of the chat screen (ChatScreen) of the ClariMed     *)
(* React Native client: file picking, POST /upload, POST /query, the       *)
(* message transcript and the change-file reset.                           *)
(*                                                                         *)
(* One action is one run-to-completion slice of a JavaScript handler: the  *)
(* code between two awaits.  React state setters called in one slice are   *)
(* applied together.  Message ids come from Date.now(): the model keeps    *)
(* a millisecond clock; a slice started by a user action runs at least one *)
(* millisecond after the slice before it, a slice started by a network     *)
(* response may run in the same millisecond as the slice before it.        *)
(***************************************************************************)
EXTENDS Integers, Sequences, FiniteSets, TLC

\* ---------------------------------------------------------------- bounds
\* Largest value of the millisecond clock read by Date.now(); the screen is
\* mounted at time 0.
MaxTime == 7
\* Largest number of alert dialogs the analytics screen shows in one behaviour.
MaxAlerts == 4
\* Auth-state notifications the provider sends in a behaviour.
MaxNotices == 3

\* ------------------------------------------------------------ input data
\* Texts the user types into the input field: nothing, blanks only, and a
\* question padded with blanks.
InputTexts == { <<>>, <<" ">>, <<" ", "a">> }

\* String.prototype.trim: drop leading and trailing blanks.
RECURSIVE trimStart(_)
trimStart(s) ==
  IF s = <<>> THEN <<>>
  ELSE IF Head(s) = " " THEN trimStart(Tail(s)) ELSE s

RECURSIVE trimEnd(_)
trimEnd(s) ==
  IF s = <<>> THEN <<>>
  ELSE IF s[Len(s)] = " " THEN trimEnd(SubSeq(s, 1, Len(s) - 1)) ELSE s

trim(s) == trimEnd(trimStart(s))

\* null for currentFile / fileInfo.
NoFile == [uri |-> "", name |-> "", type |-> ""]

\* Assets the document picker can hand back (file.uri, file.name, file.mimeType;
\* an empty mimeType stands for a missing one).
DocAssets == { [uri |-> "file:a", name |-> "a.pdf", mimeType |-> ""] }

\* Assets the image library can hand back (only the uri is read).
ImageAssets == { [uri |-> "file:c", name |-> "c.heic", mimeType |-> "image/heic"] }

\* Results of DocumentPicker.getDocumentAsync / ImagePicker.launchImageLibraryAsync:
\* cancelled, resolved with no asset, resolved with one asset, or rejected.
PickerResults(assets) ==
  { [threw |-> FALSE, canceled |-> TRUE,  assets |-> <<>>],
    [threw |-> FALSE, canceled |-> FALSE, assets |-> <<>>],
    [threw |-> TRUE,  canceled |-> FALSE, assets |-> <<>>] }
  \cup { [threw |-> FALSE, canceled |-> FALSE, assets |-> <<a>>] : a \in assets }

\* chunks_count values the backend reports.
ChunkCounts == {3}

\* Outcomes of axios.post.  resolved: a 2xx response (status, data); otherwise
\* the promise rejects with an error carrying response (status, data), message
\* and code.  data is described by hasData, success ("true" | "false" |
\* "absent"), hasAnswer/answer, error (data.error, "" when missing),
\* dataIsString and chunks.
Outcome(ok, rsp, st, hd, su, ha, an, er, ds, ch, msg, cd) ==
  [resolved |-> ok, hasResponse |-> rsp, status |-> st, hasData |-> hd,
   success |-> su, hasAnswer |-> ha, answer |-> an, error |-> er,
   dataIsString |-> ds, chunks |-> ch, message |-> msg, code |-> cd]

UploadOutcomes ==
  { Outcome(TRUE, TRUE, 200, TRUE, "true", FALSE, <<>>, "", FALSE, c, "", "") :
      c \in ChunkCounts }
  \cup
  { Outcome(TRUE, TRUE, 200, TRUE, "false", FALSE, <<>>, e, FALSE, 0, "", "") :
      e \in {"", "unsupported file"} }
  \cup
  { Outcome(TRUE, TRUE, 204, FALSE, "absent", FALSE, <<>>, "", FALSE, 0, "", ""),
    Outcome(FALSE, TRUE, 400, TRUE, "false", FALSE, <<>>, "no file", FALSE, 0,
            "Request failed with status code 400", "ERR_BAD_REQUEST"),
    Outcome(FALSE, TRUE, 500, TRUE, "absent", FALSE, <<>>, "", TRUE, 0,
            "Request failed with status code 500", "ERR_BAD_RESPONSE"),
    Outcome(FALSE, FALSE, 0, FALSE, "absent", FALSE, <<>>, "", FALSE, 0,
            "connect ECONNREFUSED", "ECONNREFUSED"),
    Outcome(FALSE, FALSE, 0, FALSE, "absent", FALSE, <<>>, "", FALSE, 0,
            "timeout of 60000ms exceeded", "ECONNABORTED") }

\* The message axios gives the error of a response with status 500.
Msg500 == "Request failed with status code 500"

\* Outcomes of POST /query: 200 responses with an answer, a blank answer, an
\* empty answer, no answer, success false (with an error, with an error that
\* reads like the message of axios) and no body; error responses 400, 500
\* (JSON error, no body) and 503 with the messages axios gives them; a refused
\* connection and a timeout.
QueryOutcomes ==
  { Outcome(TRUE, TRUE, 200, TRUE, "true", TRUE, <<"a">>, "", FALSE, 0, "", ""),
    Outcome(TRUE, TRUE, 200, TRUE, "true", TRUE, <<" ">>, "", FALSE, 0, "", ""),
    Outcome(TRUE, TRUE, 200, TRUE, "true", TRUE, <<>>, "", FALSE, 0, "", ""),
    Outcome(TRUE, TRUE, 200, TRUE, "absent", FALSE, <<>>, "", FALSE, 0, "", ""),
    Outcome(TRUE, TRUE, 200, TRUE, "false", FALSE, <<>>, "no document", FALSE, 0,
            "", ""),
    Outcome(TRUE, TRUE, 200, TRUE, "false", FALSE, <<>>, Msg500, FALSE, 0, "", ""),
    Outcome(TRUE, TRUE, 200, FALSE, "absent", FALSE, <<>>, "", FALSE, 0, "", ""),
    Outcome(FALSE, TRUE, 400, TRUE, "absent", FALSE, <<>>, "", FALSE, 0,
            "Request failed with status code 400", "ERR_BAD_REQUEST"),
    Outcome(FALSE, TRUE, 500, TRUE, "false", FALSE, <<>>, "model crashed", FALSE, 0,
            Msg500, "ERR_BAD_RESPONSE"),
    Outcome(FALSE, TRUE, 500, FALSE, "absent", FALSE, <<>>, "", FALSE, 0,
            Msg500, "ERR_BAD_RESPONSE"),
    Outcome(FALSE, TRUE, 503, FALSE, "absent", FALSE, <<>>, "", FALSE, 0,
            "Request failed with status code 503", "ERR_BAD_RESPONSE"),
    Outcome(FALSE, FALSE, 0, FALSE, "absent", FALSE, <<>>, "", FALSE, 0,
            "connect ECONNREFUSED", "ECONNREFUSED"),
    Outcome(FALSE, FALSE, 0, FALSE, "absent", FALSE, <<>>, "", FALSE, 0,
            "timeout of 60000ms exceeded", "ECONNABORTED") }

\* The body of a string response (data when dataIsString).
DataString == "Internal Server Error"

\* ---------------------------------------------------------------- state
VARIABLES
  messages,         \* useState([])     the transcript
  inputText,        \* useState('')     the text field
  loading,          \* useState(false)
  currentFile,      \* useState(null)
  hasUploadedFile,  \* useState(false)
  picker,           \* what the screen waits for: "mounting" (the mount effect),
                    \* "doc" / "image" (a picker dialog), "none"
  inflight,         \* axios.post promises not yet settled
  now,              \* the clock behind Date.now()
  nup,              \* number of POST /upload requests issued so far
  nq                \* number of POST /query requests issued so far

vars == <<messages, inputText, loading, currentFile, hasUploadedFile, picker,
          inflight, now, nup, nq>>

\* State of the analytics screen (HomeScreen of screens/AnalyticsScreen.js).
VARIABLES
  selectedFile,     \* useState(null)
  analysisResult,   \* useState(null)
  aLoading,         \* useState(false)   the screen's loading
  aPicker,          \* the picker dialog awaited by pickDocument / pickImage
  aInflight,        \* axios.post promises not yet settled
  alerts,           \* number of Alert.alert calls so far
  alert             \* title and text of the last Alert.alert call

avars == <<selectedFile, analysisResult, aLoading, aPicker, aInflight, alerts,
           alert>>

\* null for analysisResult.
NoResult == [of |-> NoFile, findings |-> 0]

\* The useState initial values of the analytics screen.
AnalyticsInit ==
  /\ selectedFile = NoFile
  /\ analysisResult = NoResult
  /\ aLoading = FALSE
  /\ aPicker = "none"
  /\ aInflight = {}
  /\ alerts = 0
  /\ alert = <<"", "">>

\* State of the root component (App) and of the signup screen, with the auth
\* provider they talk to.
VARIABLES
  user,             \* App: useState(null)
  appLoading,       \* App: useState(true)    the root's loading
  subscribed,       \* App: the effect has registered the auth-state observer
  notices,          \* auth-state notifications the provider has yet to deliver
  delivered,        \* number of notifications delivered to the observer
  currentUser,      \* the provider's signed-in user (auth.currentUser)
  email,            \* SignupScreen: useState('')
  password,         \* SignupScreen: useState('')
  confirmPassword,  \* SignupScreen: useState('')
  isLoading,        \* SignupScreen: useState(false)
  calls,            \* createUserWithEmailAndPassword promises not yet awaited
  signingOut,       \* a signOut promise is outstanding
  authAlert         \* title and text of the last Alert.alert call

authvars == <<user, appLoading, subscribed, notices, delivered, currentUser,
              email, password, confirmPassword, isLoading, calls, signingOut,
              authAlert>>

\* null for user.
NoUser == "null"

\* The useState initial values of App and SignupScreen; nobody has subscribed.
AuthInit ==
  /\ user = NoUser
  /\ appLoading = TRUE
  /\ subscribed = FALSE
  /\ notices = <<>>
  /\ delivered = 0
  /\ currentUser = NoUser
  /\ email = <<>>
  /\ password = <<>>
  /\ confirmPassword = <<>>
  /\ isLoading = FALSE
  /\ calls = {}
  /\ signingOut = FALSE
  /\ authAlert = <<"", "">>

\* A transcript entry {id, text, isBot}; text is a template (tpl) with its
\* interpolated string (arg: a file name or an error detail), chunk count (n)
\* or free text (body: the trimmed question or the answer).  The
\* timestamp field is never read by the handlers and is left out.
Msg(id, isBot, tpl, arg, n, body) ==
  [id |-> id, isBot |-> isBot, tpl |-> tpl, arg |-> arg, n |-> n, body |-> body]

NoReq == [rid |-> 0, kind |-> "none", file |-> NoFile, phId |-> 0,
          question |-> <<>>, hadDoc |-> FALSE]

\* prev.filter(msg => msg.id !== id)
RECURSIVE filterOutId(_, _)
filterOutId(ms, id) ==
  IF ms = <<>> THEN <<>>
  ELSE IF Head(ms).id # id THEN <<Head(ms)>> \o filterOutId(Tail(ms), id)
       ELSE filterOutId(Tail(ms), id)

\* route.params of the screen: no seed, a seed with fileInfo, a seed without.
Seeds ==
  { [hasAnalyzedFile |-> FALSE, fileInfo |-> NoFile],
    [hasAnalyzedFile |-> TRUE,  fileInfo |-> NoFile],
    [hasAnalyzedFile |-> TRUE,
     fileInfo |-> [uri |-> "file:s", name |-> "s.pdf", type |-> "application/pdf"]] }

\* The useState initial values; the effect of the first render has not run.
Init ==
  /\ now = 0
  /\ messages = <<>>
  /\ inputText = <<>>
  /\ loading = FALSE
  /\ currentFile = NoFile
  /\ hasUploadedFile = FALSE
  /\ picker = "mounting"
  /\ inflight = {}
  /\ nup = 0
  /\ nq = 0
  /\ AnalyticsInit
  /\ AuthInit

\* mountEffect that drops route.params.fileInfo.
mountEffectDropsFile(seed) ==
  /\ picker = "mounting"
  /\ picker' = "none"
  /\ hasUploadedFile' = seed.hasAnalyzedFile
  /\ currentFile' = NoFile
  /\ messages' = << Msg(now, TRUE,
                        IF seed.hasAnalyzedFile THEN "welcome" ELSE "uploadPrompt",
                        "", 0, <<>>) >>
  /\ UNCHANGED <<inputText, loading, inflight, now, nup, nq>>

\* The effect run after the first render: useEffect(() => {...}, [route]).
mountEffect(seed) ==
  /\ picker = "mounting"
  /\ picker' = "none"
  /\ IF seed.hasAnalyzedFile
     THEN /\ hasUploadedFile' = TRUE
          /\ currentFile' = seed.fileInfo
          /\ messages' = << Msg(now, TRUE, "welcome", "", 0, <<>>) >>
     ELSE /\ messages' = << Msg(now, TRUE, "uploadPrompt", "", 0, <<>>) >>
          /\ UNCHANGED <<hasUploadedFile, currentFile>>
  /\ UNCHANGED <<inputText, loading, inflight, now, nup, nq>>

\* The clock advances between slices (a response can arrive any time later);
\* the screen is mounted at time 0.
Tick ==
  /\ picker # "mounting"
  /\ now < MaxTime
  /\ now' = now + 1
  /\ UNCHANGED <<messages, inputText, loading, currentFile, hasUploadedFile,
                 picker, inflight, nup, nq>>

\* Date.now() in a slice started by a user action (a tap, a key stroke, the
\* dismissal of a picker dialog): such a slice runs at least one millisecond
\* after the slice before it.
userNow == now + 1

\* The clock step of a slice started by a user action.
userSlice ==
  /\ now < MaxTime
  /\ now' = userNow

\* Upload buttons rendered unconditionally.
uploadButtonsShownAlways == TRUE

\* {!hasUploadedFile && ( ...upload buttons... )}
uploadButtonsShown == ~hasUploadedFile

\* pickDocument / pickImage up to the await of the picker dialog.
pickPressed(which) ==
  /\ picker = "none"
  /\ uploadButtonsShown
  /\ userSlice
  /\ picker' = which
  /\ UNCHANGED <<messages, inputText, loading, currentFile, hasUploadedFile,
                 inflight, nup, nq>>

\* uploadFileToServer up to the await of axios.post.
uploadFileToServer(fileInfo) ==
  LET uploadingMessage == Msg(userNow, TRUE, "uploading", fileInfo.name, 0, <<>>)
      req == [rid |-> nup + nq + 1, kind |-> "upload", file |-> fileInfo,
              phId |-> uploadingMessage.id, question |-> <<>>,
              hadDoc |-> hasUploadedFile]
  IN  /\ loading' = TRUE
      /\ messages' = Append(messages, uploadingMessage)
      /\ inflight' = inflight \cup {req}
      /\ nup' = nup + 1
      /\ nq' = nq

\* pickDocumentReturns with a cancellation that clears currentFile.
pickDocumentReturnsCancelClears(result) ==
  /\ picker = "doc"
  /\ userSlice
  /\ picker' = "none"
  /\ IF ~result.threw /\ ~result.canceled /\ Len(result.assets) > 0
     THEN LET file == result.assets[1]
              fileInfo == [uri |-> file.uri, name |-> file.name,
                           type |-> IF file.mimeType # "" THEN file.mimeType
                                    ELSE "application/pdf"]
          IN  /\ currentFile' = fileInfo
              /\ uploadFileToServer(fileInfo)
              /\ UNCHANGED <<inputText, hasUploadedFile>>
     ELSE /\ currentFile' = NoFile
          /\ UNCHANGED <<messages, inputText, loading, hasUploadedFile,
                         inflight, nup, nq>>

\* pickDocument after the picker dialog settles.  A rejected picker promise
\* shows the alert 'Failed to pick file'.
pickDocumentReturns(result) ==
  /\ picker = "doc"
  /\ userSlice
  /\ picker' = "none"
  /\ IF result.threw
     THEN UNCHANGED <<messages, inputText, loading, currentFile,
                      hasUploadedFile, inflight, nup, nq>>
     ELSE IF ~result.canceled /\ Len(result.assets) > 0
     THEN LET file == result.assets[1]
              fileInfo == [uri |-> file.uri, name |-> file.name,
                           type |-> IF file.mimeType # "" THEN file.mimeType
                                    ELSE "application/pdf"]
          IN  /\ currentFile' = fileInfo
              /\ uploadFileToServer(fileInfo)
              /\ UNCHANGED <<inputText, hasUploadedFile>>
     ELSE UNCHANGED <<messages, inputText, loading, currentFile,
                      hasUploadedFile, inflight, nup, nq>>

\* pickImage after the image library settles.  A rejected promise, or a
\* result without assets (result.assets[0] throws), shows the alert 'Failed
\* to pick image'.
pickImageReturns(result) ==
  /\ picker = "image"
  /\ userSlice
  /\ picker' = "none"
  /\ IF result.threw \/ (~result.canceled /\ Len(result.assets) = 0)
     THEN UNCHANGED <<messages, inputText, loading, currentFile,
                      hasUploadedFile, inflight, nup, nq>>
     ELSE IF ~result.canceled
     THEN LET fileInfo == [uri |-> result.assets[1].uri, name |-> "image.jpg",
                           type |-> "image/jpeg"]
          IN  /\ currentFile' = fileInfo
              /\ uploadFileToServer(fileInfo)
              /\ UNCHANGED <<inputText, hasUploadedFile>>
     ELSE UNCHANGED <<messages, inputText, loading, currentFile,
                      hasUploadedFile, inflight, nup, nq>>

\* res.data.success is truthy (a missing res.data makes the read throw).
uploadSucceeded(res) == res.resolved /\ res.hasData /\ res.success = "true"

\* uploadSettles with a catch block that posts the file again.
uploadSettlesRetries(req, res) ==
  /\ req \in inflight
  /\ req.kind = "upload"
  /\ IF res.resolved /\ res.hasData /\ res.success = "true"
     THEN /\ hasUploadedFile' = TRUE
          /\ messages' = Append(filterOutId(messages, req.phId),
                                Msg(now, TRUE, "uploadSuccess", req.file.name,
                                    res.chunks, <<>>))
          /\ inflight' = inflight \ {req}
          /\ loading' = FALSE
          /\ nup' = nup
     ELSE /\ nup < MaxTime
          /\ nup' = nup + 1
          /\ UNCHANGED <<hasUploadedFile, messages, inflight, loading>>
  /\ UNCHANGED <<inputText, currentFile, picker, now, nq>>

\* uploadSettles with setLoading(false) at the end of the try block instead of
\* in a finally block.
uploadSettlesNoFinally(req, res) ==
  /\ req \in inflight
  /\ req.kind = "upload"
  /\ inflight' = inflight \ {req}
  /\ IF res.resolved /\ res.hasData /\ res.success = "true"
     THEN /\ hasUploadedFile' = TRUE
          /\ messages' = Append(filterOutId(messages, req.phId),
                                Msg(now, TRUE, "uploadSuccess", req.file.name,
                                    res.chunks, <<>>))
          /\ loading' = FALSE
     ELSE /\ hasUploadedFile' = hasUploadedFile
          /\ messages' = Append(filterOutId(messages, req.phId),
                                Msg(now, TRUE, "uploadFailed", req.file.name,
                                    0, <<>>))
          /\ loading' = loading
  /\ UNCHANGED <<inputText, currentFile, picker, now, nup, nq>>

\* uploadFileToServer after axios.post settles: try / catch / finally.  The
\* failure path also shows the alert 'Upload Failed'.
uploadSettles(req, res) ==
  /\ req \in inflight
  /\ req.kind = "upload"
  /\ inflight' = inflight \ {req}
  /\ IF uploadSucceeded(res)
     THEN /\ hasUploadedFile' = TRUE
          /\ messages' = Append(filterOutId(messages, req.phId),
                                Msg(now, TRUE, "uploadSuccess", req.file.name,
                                    res.chunks, <<>>))
     ELSE /\ hasUploadedFile' = hasUploadedFile
          /\ messages' = Append(filterOutId(messages, req.phId),
                                Msg(now, TRUE, "uploadFailed", req.file.name,
                                    0, <<>>))
  /\ loading' = FALSE
  /\ UNCHANGED <<inputText, currentFile, picker, now, nup, nq>>

\* editable={hasUploadedFile && !loading} of the TextInput.
inputEditable == hasUploadedFile /\ ~loading

\* onChangeText={setInputText}
typeText(t) ==
  /\ picker = "none"
  /\ inputEditable
  /\ t # inputText
  /\ userSlice
  /\ inputText' = t
  /\ UNCHANGED <<messages, loading, currentFile, hasUploadedFile, picker,
                 inflight, nup, nq>>

\* sendDisabled without the loading term.
sendDisabledNoLoading == ~hasUploadedFile \/ trim(inputText) = <<>>

\* disabled={!hasUploadedFile || !inputText.trim() || loading} of the Send button.
sendDisabled == ~hasUploadedFile \/ trim(inputText) = <<>> \/ loading

\* sendMessage up to the await of axios.post.  The branch for a missing
\* document shows the alert 'No File Uploaded'.
sendMessage ==
  IF trim(inputText) = <<>>
  THEN UNCHANGED <<messages, inputText, loading, currentFile, hasUploadedFile,
                   picker, inflight, nup, nq>>
  ELSE IF ~hasUploadedFile
  THEN UNCHANGED <<messages, inputText, loading, currentFile, hasUploadedFile,
                   picker, inflight, nup, nq>>
  ELSE LET userMessage == Msg(userNow, FALSE, "user", "", 0, trim(inputText))
           questionText == trim(inputText)
           req == [rid |-> nup + nq + 1, kind |-> "query", file |-> NoFile,
                   phId |-> userMessage.id, question |-> questionText,
                   hadDoc |-> hasUploadedFile]
       IN  /\ messages' = Append(messages, userMessage)
           /\ inputText' = <<>>
           /\ loading' = TRUE
           /\ inflight' = inflight \cup {req}
           /\ nq' = nq + 1
           /\ nup' = nup
           /\ UNCHANGED <<currentFile, hasUploadedFile, picker>>

\* sendPressed with the text tested neither by the button nor by sendMessage.
sendPressedNoBlankCheck ==
  /\ picker = "none"
  /\ hasUploadedFile
  /\ ~loading
  /\ userSlice
  /\ messages' = Append(messages, Msg(userNow, FALSE, "user", "", 0, trim(inputText)))
  /\ inputText' = <<>>
  /\ loading' = TRUE
  /\ inflight' = inflight \cup
       {[rid |-> nup + nq + 1, kind |-> "query", file |-> NoFile, phId |-> userNow,
         question |-> trim(inputText), hadDoc |-> hasUploadedFile]}
  /\ nq' = nq + 1
  /\ nup' = nup
  /\ UNCHANGED <<currentFile, hasUploadedFile, picker>>

\* sendPressed with hasUploadedFile tested neither by the button nor by
\* sendMessage.
sendPressedNoFileCheck ==
  /\ picker = "none"
  /\ trim(inputText) # <<>>
  /\ ~loading
  /\ userSlice
  /\ messages' = Append(messages, Msg(userNow, FALSE, "user", "", 0, trim(inputText)))
  /\ inputText' = <<>>
  /\ loading' = TRUE
  /\ inflight' = inflight \cup
       {[rid |-> nup + nq + 1, kind |-> "query", file |-> NoFile, phId |-> userNow,
         question |-> trim(inputText), hadDoc |-> hasUploadedFile]}
  /\ nq' = nq + 1
  /\ nup' = nup
  /\ UNCHANGED <<currentFile, hasUploadedFile, picker>>

\* A tap on the Send button while it is enabled runs sendMessage.
sendPressed ==
  /\ picker = "none"
  /\ ~sendDisabled
  /\ userSlice
  /\ sendMessage

\* A tap on the Send button while it is disabled is dropped by TouchableOpacity.
sendPressedDisabled ==
  /\ picker = "none"
  /\ sendDisabled
  /\ UNCHANGED <<messages, inputText, loading, currentFile, hasUploadedFile,
                 picker, inflight, now, nup, nq>>

\* The error caught by sendMessage: the axios rejection, or the Error thrown in
\* the try block for a 2xx response that is not a usable answer.
caughtError(res) ==
  IF ~res.resolved
  THEN [hasResponse |-> res.hasResponse, status |-> res.status,
        dataError |-> res.error,
        dataString |-> IF res.dataIsString THEN DataString ELSE "",
        message |-> res.message, code |-> res.code]
  ELSE [hasResponse |-> FALSE, status |-> 0, dataError |-> "", dataString |-> "",
        code |-> "",
        message |->
          IF res.status = 200 /\ res.hasData
          THEN IF res.success = "false"
               THEN IF res.error # "" THEN res.error
                    ELSE "Backend returned unsuccessful response"
               ELSE "No answer received from the AI model"
          ELSE "Invalid response from server"]

\* response.status === 200 && response.data && success !== false &&
\* response.data.answer && response.data.answer.trim()
queryAnswered(res) ==
  /\ res.resolved
  /\ res.status = 200
  /\ res.hasData
  /\ res.success # "false"
  /\ res.hasAnswer
  /\ res.answer # <<>>
  /\ trim(res.answer) # <<>>

\* The if / else-if chain of the catch block: <<template, detail>>.
errorText(err) ==
  IF err.hasResponse /\ err.dataError # ""
  THEN <<"Error: ", err.dataError>>
  ELSE IF err.hasResponse /\ err.dataString # ""
  THEN <<"Server error: ", err.dataString>>
  ELSE IF err.message # "" /\ err.message # Msg500
  THEN <<"Error: ", err.message>>
  ELSE IF err.hasResponse /\ err.status = 400
  THEN <<"Bad request - please check if you have uploaded a document first.", "">>
  ELSE IF err.hasResponse /\ err.status >= 500
  THEN <<"Server error - the AI service might be busy. Please try again in a moment.", "">>
  ELSE IF err.code = "ECONNREFUSED"
  THEN <<"Cannot connect to server - please check if the backend is running.", "">>
  ELSE IF err.code = "ECONNABORTED"
  THEN <<"Request timed out - the AI is taking too long to respond. Please try a shorter question.", "">>
  ELSE <<"Sorry, I encountered an error while processing your question. Please try again.", "">>

\* querySettles with a catch block that appends no message.
querySettlesSilentFailure(req, res) ==
  /\ req \in inflight
  /\ req.kind = "query"
  /\ inflight' = inflight \ {req}
  /\ IF queryAnswered(res)
     THEN messages' = Append(messages,
                             Msg(now + 1, TRUE, "answer", "", 0, res.answer))
     ELSE messages' = messages
  /\ loading' = FALSE
  /\ UNCHANGED <<inputText, currentFile, hasUploadedFile, picker, now, nup, nq>>

\* querySettles with the reply put in the place of the last message instead of
\* after it.
querySettlesReplacesLast(req, res) ==
  /\ req \in inflight
  /\ req.kind = "query"
  /\ inflight' = inflight \ {req}
  /\ LET t == IF queryAnswered(res) THEN <<"answer", "">>
               ELSE errorText(caughtError(res))
     IN  messages' = Append(SubSeq(messages, 1, Len(messages) - 1),
                            Msg(now + 1, TRUE, t[1], t[2], 0,
                                IF queryAnswered(res) THEN res.answer ELSE <<>>))
  /\ loading' = FALSE
  /\ UNCHANGED <<inputText, currentFile, hasUploadedFile, picker, now, nup, nq>>

\* querySettles with setLoading(false) at the end of the try block instead of
\* in a finally block.
querySettlesNoFinally(req, res) ==
  /\ req \in inflight
  /\ req.kind = "query"
  /\ inflight' = inflight \ {req}
  /\ IF queryAnswered(res)
     THEN /\ messages' = Append(messages,
                                Msg(now + 1, TRUE, "answer", "", 0, res.answer))
          /\ loading' = FALSE
     ELSE LET t == errorText(caughtError(res))
          IN  /\ messages' = Append(messages,
                                    Msg(now + 1, TRUE, t[1], t[2], 0, <<>>))
              /\ loading' = loading
  /\ UNCHANGED <<inputText, currentFile, hasUploadedFile, picker, now, nup, nq>>

\* sendMessage after axios.post settles: try / catch / finally.
querySettles(req, res) ==
  /\ req \in inflight
  /\ req.kind = "query"
  /\ inflight' = inflight \ {req}
  /\ IF queryAnswered(res)
     THEN messages' = Append(messages,
                             Msg(now + 1, TRUE, "answer", "", 0, res.answer))
     ELSE LET t == errorText(caughtError(res))
          IN  messages' = Append(messages,
                                 Msg(now + 1, TRUE, t[1], t[2], 0, <<>>))
  /\ loading' = FALSE
  /\ UNCHANGED <<inputText, currentFile, hasUploadedFile, picker, now, nup, nq>>

\* changeFile without setCurrentFile(null).
changeFileKeepsFile ==
  /\ picker = "none"
  /\ hasUploadedFile
  /\ userSlice
  /\ hasUploadedFile' = FALSE
  /\ messages' = << Msg(userNow, TRUE, "newUploadPrompt", "", 0, <<>>) >>
  /\ UNCHANGED <<inputText, loading, currentFile, picker, inflight, nup, nq>>

\* onPress of the Change File button, rendered only when hasUploadedFile.
changeFile ==
  /\ picker = "none"
  /\ hasUploadedFile
  /\ userSlice
  /\ hasUploadedFile' = FALSE
  /\ currentFile' = NoFile
  /\ messages' = << Msg(userNow, TRUE, "newUploadPrompt", "", 0, <<>>) >>
  /\ UNCHANGED <<inputText, loading, picker, inflight, nup, nq>>

\* The other screens do not act while the chat screen is the one in use.
chatOnly == UNCHANGED <<avars, authvars>>

Next ==
  \/ chatOnly /\ \E seed \in Seeds : mountEffect(seed)
  \/ chatOnly /\ Tick
  \/ chatOnly /\ \E which \in {"doc", "image"} : pickPressed(which)
  \/ chatOnly /\ \E result \in PickerResults(DocAssets) : pickDocumentReturns(result)
  \/ chatOnly /\ \E result \in PickerResults(ImageAssets) : pickImageReturns(result)
  \/ chatOnly /\ \E req \in inflight : \E res \in UploadOutcomes : uploadSettles(req, res)
  \/ chatOnly /\ \E t \in InputTexts : typeText(t)
  \/ chatOnly /\ sendPressed
  \/ chatOnly /\ sendPressedDisabled
  \/ chatOnly /\ \E req \in inflight : \E res \in QueryOutcomes : querySettles(req, res)
  \/ chatOnly /\ changeFile

Spec == Init /\ [][Next]_vars

\* Numbers of the requests a behaviour can issue: a request takes two user
\* actions (a button and the dismissal of the picker, or a text and Send).
ReqIds == 1..(MaxTime \div 2)

\* The request numbered rid settles: axios.post resolves, rejects or times out.
settles(rid) ==
  \E req \in inflight :
    /\ req.rid = rid
    /\ \/ \E res \in UploadOutcomes : uploadSettles(req, res)
       \/ \E res \in QueryOutcomes : querySettles(req, res)

\* Every request issued eventually yields a response, an error or its timeout
\* (timeout: 60000 of both axios.post calls).
LiveSpec ==
  Init /\ [][Next]_vars /\ \A rid \in ReqIds : WF_vars(settles(rid))

\* ------------------------------------------------------ analytics screen
\* Outcomes of the POST /upload of the analytics screen.  resolved: a 2xx
\* response with data (hasData; success "true" | "false" | "absent"; error, ""
\* when missing; findings: total_findings); otherwise an error with a response
\* (status, data.error), with only a request (no response arrived: refused
\* connection, timeout), or with neither.
AnalysisOutcome(ok, rsp, rq, st, hd, su, er, fi) ==
  [resolved |-> ok, hasResponse |-> rsp, hasRequest |-> rq, status |-> st,
   hasData |-> hd, success |-> su, error |-> er, findings |-> fi]

AnalysisOutcomes ==
  { AnalysisOutcome(TRUE, TRUE, TRUE, 200, TRUE, "true", "", 2),
    AnalysisOutcome(TRUE, TRUE, TRUE, 200, TRUE, "false", "no text found", 0),
    AnalysisOutcome(TRUE, TRUE, TRUE, 200, TRUE, "absent", "", 0),
    AnalysisOutcome(TRUE, TRUE, TRUE, 204, FALSE, "absent", "", 0),
    AnalysisOutcome(FALSE, TRUE, TRUE, 400, TRUE, "false", "no file", 0),
    AnalysisOutcome(FALSE, TRUE, TRUE, 500, FALSE, "absent", "", 0),
    AnalysisOutcome(FALSE, FALSE, TRUE, 0, FALSE, "absent", "", 0),
    AnalysisOutcome(FALSE, FALSE, FALSE, 0, FALSE, "absent", "", 0) }

\* Alert.alert(title, text).
showAlert(title, text) ==
  /\ alerts < MaxAlerts
  /\ alerts' = alerts + 1
  /\ alert' = <<title, text>>

\* pickDocument / pickImage of the analytics screen up to the await of the
\* picker dialog; the Pick buttons are never disabled.
analyticsPickPressed(which) ==
  /\ aPicker = "none"
  /\ aPicker' = which
  /\ UNCHANGED <<selectedFile, analysisResult, aLoading, aInflight, alerts, alert>>

\* pickDocument of the analytics screen after the picker dialog settles.
analyticsPickDocumentReturns(result) ==
  /\ aPicker = "doc"
  /\ aPicker' = "none"
  /\ IF result.threw
     THEN /\ showAlert("Error", "Failed to pick file")
          /\ UNCHANGED <<selectedFile, analysisResult, aLoading, aInflight>>
     ELSE IF ~result.canceled /\ Len(result.assets) > 0
     THEN LET file == result.assets[1]
          IN  /\ selectedFile' = [uri |-> file.uri, name |-> file.name,
                                  type |-> IF file.mimeType # "" THEN file.mimeType
                                           ELSE "application/pdf"]
              /\ UNCHANGED <<analysisResult, aLoading, aInflight, alerts, alert>>
     ELSE UNCHANGED <<selectedFile, analysisResult, aLoading, aInflight, alerts,
                      alert>>

\* pickImage of the analytics screen after the image library settles; a
\* result without assets makes result.assets[0].uri throw.
analyticsPickImageReturns(result) ==
  /\ aPicker = "image"
  /\ aPicker' = "none"
  /\ IF result.threw \/ (~result.canceled /\ Len(result.assets) = 0)
     THEN /\ showAlert("Error", "Failed to pick image")
          /\ UNCHANGED <<selectedFile, analysisResult, aLoading, aInflight>>
     ELSE IF ~result.canceled
     THEN /\ selectedFile' = [uri |-> result.assets[1].uri, name |-> "image.jpg",
                              type |-> "image/jpeg"]
          /\ UNCHANGED <<analysisResult, aLoading, aInflight, alerts, alert>>
     ELSE UNCHANGED <<selectedFile, analysisResult, aLoading, aInflight, alerts,
                      alert>>

\* uploadFile with analysisResult kept while the request runs.
uploadFileKeepsResult ==
  /\ aPicker = "none"
  /\ ~aLoading
  /\ IF selectedFile = NoFile
     THEN /\ showAlert("Error", "No file selected. Please pick a file first.")
          /\ UNCHANGED <<selectedFile, analysisResult, aLoading, aPicker, aInflight>>
     ELSE /\ alerts < MaxAlerts
          /\ aLoading' = TRUE
          /\ aInflight' = aInflight \cup {[file |-> selectedFile]}
          /\ UNCHANGED <<selectedFile, analysisResult, aPicker, alerts, alert>>

\* uploadFile up to the await of axios.post; the button is disabled={loading}.
uploadFile ==
  /\ aPicker = "none"
  /\ ~aLoading
  /\ IF selectedFile = NoFile
     THEN /\ showAlert("Error", "No file selected. Please pick a file first.")
          /\ UNCHANGED <<selectedFile, analysisResult, aLoading, aPicker, aInflight>>
     ELSE /\ alerts < MaxAlerts
          /\ aLoading' = TRUE
          /\ analysisResult' = NoResult
          /\ aInflight' = aInflight \cup {[file |-> selectedFile]}
          /\ UNCHANGED <<selectedFile, aPicker, alerts, alert>>

\* uploadFile after axios.post settles: try / catch / finally.  A 2xx response
\* without data makes res.data.success throw an error that has neither a
\* response nor a request.
uploadFileSettles(req, res) ==
  /\ req \in aInflight
  /\ aInflight' = aInflight \ {req}
  /\ IF res.resolved /\ res.hasData
     THEN IF res.success = "true"
          THEN /\ analysisResult' = [of |-> req.file, findings |-> res.findings]
               /\ showAlert("Success", "Analysis complete!")
          ELSE /\ showAlert("Error", IF res.error # "" THEN res.error
                                     ELSE "Analysis failed")
               /\ UNCHANGED analysisResult
     ELSE /\ UNCHANGED analysisResult
          /\ IF ~res.resolved /\ res.hasResponse
             THEN showAlert("Upload failed", IF res.error # "" THEN res.error
                                             ELSE "Server error: status")
             ELSE IF ~res.resolved /\ res.hasRequest
             THEN showAlert("Upload failed", "Network error - check your connection")
             ELSE showAlert("Upload failed", "An error occurred during upload")
  /\ aLoading' = FALSE
  /\ UNCHANGED <<selectedFile, aPicker>>

\* The chat screen does not act while the analytics screen is the one in use.
analyticsOnly == UNCHANGED <<vars, authvars>>

AnalyticsNext ==
  \/ analyticsOnly /\ \E which \in {"doc", "image"} : analyticsPickPressed(which)
  \/ analyticsOnly /\ \E result \in PickerResults(DocAssets) : analyticsPickDocumentReturns(result)
  \/ analyticsOnly /\ \E result \in PickerResults(ImageAssets) : analyticsPickImageReturns(result)
  \/ analyticsOnly /\ uploadFile
  \/ analyticsOnly /\ \E req \in aInflight : \E res \in AnalysisOutcomes : uploadFileSettles(req, res)

AnalyticsSpec == Init /\ [][AnalyticsNext]_<<vars, avars, authvars>>

\* ------------------------------------------------ App and SignupScreen
\* Users the provider can report: the one persisted from an earlier run and
\* the one of an account created by the signup screen.
PersistedUsers == {NoUser, "u0"}
NewUser == "u1"

\* Texts typed into the email field (blanks only, an address behind a blank)
\* and into the two password fields (five characters, six characters, six
\* blanks, a blank and five characters); a field left alone is empty.
Emails == { <<" ">>, <<" ", "a">> }
Passwords ==
  { <<"a", "a", "a", "a", "a">>, <<"a", "a", "a", "a", "a", "a">>,
    <<" ", " ", " ", " ", " ", " ">>, <<" ", "a", "a", "a", "a", "a">> }

\* error.code values of a rejected createUserWithEmailAndPassword.
SignupErrors ==
  { "auth/email-already-in-use", "auth/weak-password", "auth/invalid-email",
    "auth/too-many-requests", "auth/network-request-failed" }

\* What App renders: null, <TabNavigator /> or <AuthStack />.
shown ==
  IF appLoading THEN "nothing" ELSE IF user # NoUser THEN "tabs" ELSE "stack"

\* The effect of App: onAuthStateChanged registers the observer, and the
\* provider reports the persisted sign-in state to it once.
subscribe(persisted) ==
  /\ ~subscribed
  /\ subscribed' = TRUE
  /\ currentUser' = persisted
  /\ notices' = Append(notices, persisted)
  /\ UNCHANGED <<user, appLoading, delivered, email, password, confirmPassword,
                 isLoading, calls, signingOut, authAlert>>

\* The observer that sets the user only when there is one.
authStateChangedKeepsUser ==
  /\ notices # <<>>
  /\ user' = IF Head(notices) # NoUser THEN Head(notices) ELSE user
  /\ appLoading' = FALSE
  /\ notices' = Tail(notices)
  /\ delivered' = delivered + 1
  /\ IF shown = "stack" /\ user' # NoUser
     THEN /\ email' = <<>>
          /\ password' = <<>>
          /\ confirmPassword' = <<>>
          /\ isLoading' = FALSE
          /\ calls' = { [c EXCEPT !.live = FALSE] : c \in calls }
     ELSE UNCHANGED <<email, password, confirmPassword, isLoading, calls>>
  /\ UNCHANGED <<subscribed, currentUser, signingOut, authAlert>>

\* The observer of App: setUser(user); setLoading(false).  When the render
\* replaces <AuthStack /> by <TabNavigator /> the signup screen unmounts: its
\* state is discarded (the variables hold the initial values of its next
\* mount) and the calls it still awaits belong to no mounted screen.
authStateChanged ==
  /\ notices # <<>>
  /\ user' = Head(notices)
  /\ appLoading' = FALSE
  /\ notices' = Tail(notices)
  /\ delivered' = delivered + 1
  /\ IF shown = "stack" /\ Head(notices) # NoUser
     THEN /\ email' = <<>>
          /\ password' = <<>>
          /\ confirmPassword' = <<>>
          /\ isLoading' = FALSE
          /\ calls' = { [c EXCEPT !.live = FALSE] : c \in calls }
     ELSE UNCHANGED <<email, password, confirmPassword, isLoading, calls>>
  /\ UNCHANGED <<subscribed, currentUser, signingOut, authAlert>>

\* onChangeText of the three fields; they are editable whenever shown.
setEmail(t) ==
  /\ shown = "stack"
  /\ email' = t
  /\ UNCHANGED <<user, appLoading, subscribed, notices, delivered, currentUser,
                 password, confirmPassword, isLoading, calls, signingOut,
                 authAlert>>

setPassword(t) ==
  /\ shown = "stack"
  /\ password' = t
  /\ UNCHANGED <<user, appLoading, subscribed, notices, delivered, currentUser,
                 email, confirmPassword, isLoading, calls, signingOut,
                 authAlert>>

setConfirmPassword(t) ==
  /\ shown = "stack"
  /\ confirmPassword' = t
  /\ UNCHANGED <<user, appLoading, subscribed, notices, delivered, currentUser,
                 email, password, isLoading, calls, signingOut, authAlert>>

\* handleSignup without the check of the password's length.
handleSignupNoLengthCheck ==
  /\ shown = "stack"
  /\ ~isLoading
  /\ IF trim(email) = <<>> \/ trim(password) = <<>> \/ trim(confirmPassword) = <<>>
     THEN /\ authAlert' = <<"Error", "Please fill in all fields">>
          /\ UNCHANGED <<isLoading, calls>>
     ELSE IF password # confirmPassword
     THEN /\ authAlert' = <<"Error", "Passwords do not match">>
          /\ UNCHANGED <<isLoading, calls>>
     ELSE /\ isLoading' = TRUE
          /\ calls' = calls \cup { [email |-> trim(email), password |-> password,
                                    live |-> TRUE, outcome |-> "pending"] }
          /\ UNCHANGED authAlert
  /\ UNCHANGED <<user, appLoading, subscribed, notices, delivered, currentUser,
                 email, password, confirmPassword, signingOut>>

\* The Sign Up button (disabled while isLoading): handleSignup up to its
\* await.  A call is {email, password} as passed to the provider, whether
\* the screen that made it is still mounted (live), and how the provider has
\* settled it (outcome).
handleSignup ==
  /\ shown = "stack"
  /\ ~isLoading
  /\ IF trim(email) = <<>> \/ trim(password) = <<>> \/ trim(confirmPassword) = <<>>
     THEN /\ authAlert' = <<"Error", "Please fill in all fields">>
          /\ UNCHANGED <<isLoading, calls>>
     ELSE IF password # confirmPassword
     THEN /\ authAlert' = <<"Error", "Passwords do not match">>
          /\ UNCHANGED <<isLoading, calls>>
     ELSE IF Len(password) < 6
     THEN /\ authAlert' = <<"Error", "Password must be at least 6 characters">>
          /\ UNCHANGED <<isLoading, calls>>
     ELSE /\ isLoading' = TRUE
          /\ calls' = calls \cup { [email |-> trim(email), password |-> password,
                                    live |-> TRUE, outcome |-> "pending"] }
          /\ UNCHANGED authAlert
  /\ UNCHANGED <<user, appLoading, subscribed, notices, delivered, currentUser,
                 email, password, confirmPassword, signingOut>>

\* The provider settles a call: it creates the account, signs the new user in
\* and queues the notification of it, or it rejects with an error code.
createUserSettles(call, outcome) ==
  /\ call \in calls
  /\ call.outcome = "pending"
  /\ calls' = (calls \ {call}) \cup { [call EXCEPT !.outcome = outcome] }
  /\ IF outcome = "ok"
     THEN /\ delivered + Len(notices) < MaxNotices
          /\ currentUser' = NewUser
          /\ notices' = Append(notices, NewUser)
     ELSE UNCHANGED <<currentUser, notices>>
  /\ UNCHANGED <<user, appLoading, subscribed, delivered, email, password,
                 confirmPassword, isLoading, signingOut, authAlert>>

\* The switch of the catch block.
errorMessage(code) ==
  CASE code = "auth/email-already-in-use" -> "Email is already registered"
    [] code = "auth/weak-password" -> "Password is too weak"
    [] code = "auth/invalid-email" -> "Invalid email address"
    [] code = "auth/too-many-requests" -> "Too many attempts. Please try again later"
    [] OTHER -> "error.message"

\* handleSignup after its await: the alert of try or catch, then finally.
\* setIsLoading of a screen that has unmounted changes nothing.
handleSignupResumes(call) ==
  /\ call \in calls
  /\ call.outcome # "pending"
  /\ authAlert' = IF call.outcome = "ok"
                  THEN <<"Success", "Account created successfully!">>
                  ELSE <<"Error", errorMessage(call.outcome)>>
  /\ isLoading' = IF call.live THEN FALSE ELSE isLoading
  /\ calls' = calls \ {call}
  /\ UNCHANGED <<user, appLoading, subscribed, notices, delivered, currentUser,
                 email, password, confirmPassword, signingOut>>

\* handleLogout of the profile screen up to the promise of signOut.
handleLogout ==
  /\ shown = "tabs"
  /\ ~signingOut
  /\ signingOut' = TRUE
  /\ UNCHANGED <<user, appLoading, subscribed, notices, delivered, currentUser,
                 email, password, confirmPassword, isLoading, calls, authAlert>>

\* signOut settles: then or catch of handleLogout.  The provider notifies
\* its observers when the signed-in user changes.
signOutSettles(ok) ==
  /\ signingOut
  /\ signingOut' = FALSE
  /\ IF ok
     THEN /\ currentUser' = NoUser
          /\ IF currentUser # NoUser
             THEN /\ delivered + Len(notices) < MaxNotices
                  /\ notices' = Append(notices, NoUser)
             ELSE UNCHANGED notices
          /\ authAlert' = <<"Success", "You have been logged out.">>
     ELSE /\ authAlert' = <<"Error", "error.message">>
          /\ UNCHANGED <<currentUser, notices>>
  /\ UNCHANGED <<user, appLoading, subscribed, delivered, email, password,
                 confirmPassword, isLoading, calls>>

\* The chat and analytics screens do not act while these are the ones in use.
authOnly == UNCHANGED <<vars, avars>>

AuthNext ==
  \/ authOnly /\ \E persisted \in PersistedUsers : subscribe(persisted)
  \/ authOnly /\ authStateChanged
  \/ authOnly /\ \E t \in Emails : setEmail(t)
  \/ authOnly /\ \E t \in Passwords : setPassword(t)
  \/ authOnly /\ \E t \in Passwords : setConfirmPassword(t)
  \/ authOnly /\ handleSignup
  \/ authOnly /\ \E call \in calls : \E outcome \in {"ok"} \cup SignupErrors : createUserSettles(call, outcome)
  \/ authOnly /\ \E call \in calls : handleSignupResumes(call)
  \/ authOnly /\ handleLogout
  \/ authOnly /\ \E ok \in BOOLEAN : signOutSettles(ok)

AuthSpec == Init /\ [][AuthNext]_<<vars, avars, authvars>>

\* ------------------------------------------------------------ properties
count(ms, tpl) == Len(SelectSeq(ms, LAMBDA m : m.tpl = tpl))


\* C1: at most one network request (POST /upload or POST /query) is
\* outstanding at any time.
C1_AtMostOneOutstanding == Cardinality(inflight) <= 1

\* C2: whenever an upload or a query completes, with success or with failure,
\* loading is false immediately afterwards; this covers every sequence in
\* which operations start only while loading is false.
C2_PendingClearedOnCompletion ==
  [][(\E req \in inflight : req \notin inflight') => ~loading']_vars

\* An upload succeeded, then a question was asked and its query failed; nothing
\* is outstanding and loading is false.
C2_Witness ==
  /\ Len(messages) = 4
  /\ messages[2].tpl = "uploadSuccess"
  /\ messages[3].tpl = "user"
  /\ messages[4].tpl \notin {"answer", "user"}
  /\ inflight = {}
  /\ ~loading

\* Two uploads and a query were started and all of them have completed.
C3_Witness ==
  /\ nup >= 2
  /\ nq >= 1
  /\ inflight = {}
  /\ ~loading

\* C4: a Send with non-blank text while hasUploadedFile is false issues no
\* network request, appends at most one message and leaves loading as it was.
C4_NoQueryWithoutDocument ==
  [][(~hasUploadedFile /\ trim(inputText) # <<>> /\ (sendPressed \/ sendPressedDisabled))
       => (inflight' = inflight /\ nq' = nq /\ loading' = loading
           /\ Len(messages') <= Len(messages) + 1)]_vars

\* Text is typed, no document is usable, and a tap on Send is dropped.
C4_Witness ==
  /\ ~hasUploadedFile
  /\ trim(inputText) # <<>>
  /\ ~loading
  /\ now < MaxTime
  /\ ENABLED sendPressedDisabled
  /\ ~ENABLED sendPressed

\* C5: a Send with non-blank text while loading is true is rejected: it issues
\* no network request and appends no user message.
C5_NoQueryWhilePending ==
  [][(loading /\ trim(inputText) # <<>> /\ (sendPressed \/ sendPressedDisabled))
       => (inflight' = inflight /\ nq' = nq /\ messages' = messages)]_vars

\* Text is typed and a document is usable, so only loading keeps Send disabled.
C5_Witness ==
  /\ loading
  /\ hasUploadedFile
  /\ trim(inputText) # <<>>
  /\ now < MaxTime
  /\ ENABLED sendPressedDisabled
  /\ ~ENABLED sendPressed

\* C6: when an upload completes successfully, immediately afterwards
\* hasUploadedFile is true, currentFile is the submitted document, exactly one
\* success message stating chunks_count was appended, and no 'processing'
\* placeholder is left in the transcript.
C6_UploadSuccessPostcondition ==
  [][\A req \in inflight : \A res \in UploadOutcomes :
       (uploadSettles(req, res) /\ uploadSucceeded(res))
         => LET n == Len(messages')
            IN  /\ hasUploadedFile'
                /\ currentFile' = req.file
                /\ count(messages', "uploadSuccess") = count(messages, "uploadSuccess") + 1
                /\ messages'[n].tpl = "uploadSuccess"
                /\ messages'[n].n = res.chunks
                /\ count(messages', "uploading") = 0]_vars

\* C7: when an upload completes with a failure, hasUploadedFile has the value
\* it had when the upload was started, loading is false, exactly one failure
\* message was appended, and no 'processing' placeholder is left.
C7_UploadFailurePostcondition ==
  [][\A req \in inflight : \A res \in UploadOutcomes :
       (uploadSettles(req, res) /\ ~uploadSucceeded(res))
         => /\ hasUploadedFile' = req.hadDoc
            /\ ~loading'
            /\ count(messages', "uploadFailed") = count(messages, "uploadFailed") + 1
            /\ count(messages', "uploading") = 0]_vars

\* C8: when the query for question X succeeds with a non-empty answer, the
\* transcript then ends with the user message X immediately followed by the
\* reply.
C8_ReplyFollowsQuestion ==
  [][\A req \in inflight : \A res \in QueryOutcomes :
       (querySettles(req, res) /\ queryAnswered(res))
         => LET n == Len(messages')
            IN  /\ n >= 2
                /\ messages'[n].tpl = "answer"
                /\ messages'[n].body = res.answer
                /\ messages'[n - 1].isBot = FALSE
                /\ messages'[n - 1].body = req.question]_vars

\* C9: immediately after the change-file action hasUploadedFile is false,
\* currentFile is null, the transcript has exactly one message (the fresh
\* prompt), and no request was issued.
C9_ResetPostcondition ==
  [][changeFile
       => /\ ~hasUploadedFile'
          /\ currentFile' = NoFile
          /\ Len(messages') = 1
          /\ messages'[1].tpl = "newUploadPrompt"
          /\ inflight' = inflight
          /\ nup' = nup
          /\ nq' = nq]_vars

\* The change-file action ran on a transcript that held a conversation while a
\* query was still outstanding.
C9_Witness ==
  /\ Len(messages) = 1
  /\ messages[1].tpl = "newUploadPrompt"
  /\ ~hasUploadedFile
  /\ currentFile = NoFile
  /\ \E req \in inflight : req.kind = "query"

\* C10 as stated: an upload can be initiated in every state in which loading
\* is false, a usable document or not.
C10_UploadWheneverNotPending ==
  (~loading /\ picker = "none" /\ now < MaxTime)
    => (ENABLED pickPressed("doc") /\ ENABLED pickPressed("image"))

\* C10 amended: an upload can be initiated in every state in which loading is
\* false and no document is usable; while a document is usable the upload
\* buttons are not rendered, so a reset has to come first.
C10_UploadWhenNoDocument ==
  /\ (~loading /\ ~hasUploadedFile /\ picker = "none" /\ now < MaxTime)
       => (ENABLED pickPressed("doc") /\ ENABLED pickPressed("image"))
  /\ hasUploadedFile
       => (~ENABLED pickPressed("doc") /\ ~ENABLED pickPressed("image"))

\* An upload failed; loading is false, no document is usable and the upload
\* buttons can be pressed again.
C10_Witness ==
  /\ ~loading
  /\ ~hasUploadedFile
  /\ picker = "none"
  /\ inflight = {}
  /\ nup = 1
  /\ ENABLED pickPressed("doc")

outstanding(rid) == \E req \in inflight : req.rid = rid

\* C3: under LiveSpec every upload or query that was started eventually
\* completes, and whenever loading is true it eventually becomes false again
\* (P ~> ~P is written in its equivalent form []<>~P).
C3_EveryOperationCompletes ==
  /\ \A rid \in ReqIds : []<>~outstanding(rid)
  /\ []<>~loading

\* Messages of the next transcript that are not in the current one.
created == { messages'[i] : i \in 1..Len(messages') } \ { messages[i] : i \in 1..Len(messages) }

\* C11: the ids of the messages in the transcript are pairwise distinct, and
\* every newly created message gets an id strictly greater than the id of
\* every message created before it (here: of every message still in the
\* transcript when it is created).
C11_IdsUniqueAndIncreasing ==
  /\ [](\A i, j \in 1..Len(messages) : i # j => messages[i].id # messages[j].id)
  /\ [][\A m \in created : \A i \in 1..Len(messages) : messages[i].id < m.id]_vars

\* a is an initial segment of b.
isPrefix(a, b) == Len(a) <= Len(b) /\ SubSeq(b, 1, Len(a)) = a

\* C12 as stated: every step other than the change-file reset leaves the
\* transcript unchanged or appends messages at its end.
C12_AppendOnlyExceptReset ==
  [][changeFile \/ isPrefix(messages, messages')]_vars

\* C12 amended: every step other than the change-file reset leaves the
\* transcript unchanged or appends messages at its end, except that the
\* completion of an upload also removes the messages carrying the id of that
\* upload's 'processing' placeholder; the messages it keeps stay in order.
C12_AppendOnlyExceptResetAndPlaceholder ==
  [][\/ changeFile
     \/ isPrefix(messages, messages')
     \/ \E req \in inflight :
          /\ req.kind = "upload"
          /\ req \notin inflight'
          /\ Len(messages') = 1 + Len(SelectSeq(messages, LAMBDA m : m.id # req.phId))
          /\ SubSeq(messages', 1, Len(messages') - 1)
               = SelectSeq(messages, LAMBDA m : m.id # req.phId)
          /\ messages'[Len(messages')].tpl \in {"uploadSuccess", "uploadFailed"}]_vars

\* An upload and then a query completed: the placeholder is gone, the result
\* message and the question with its reply follow the prompt.
C12_Witness ==
  /\ Len(messages) = 4
  /\ messages[1].tpl = "uploadPrompt"
  /\ messages[2].tpl = "uploadSuccess"
  /\ messages[3].tpl = "user"
  /\ messages[4].tpl = "answer"
  /\ nup = 1

\* The last message of the next transcript.
appended == messages'[Len(messages')]

\* C13: for a 200 response to /query: if success is false the appended
\* assistant message carries the error field of the response; otherwise if
\* answer is a non-empty string exactly one assistant message with that answer
\* as its body is appended; otherwise exactly one 'no answer' failure message
\* and no answer message is appended.
C13_ReplyFor200 ==
  [][\A req \in inflight : \A res \in QueryOutcomes :
       (querySettles(req, res) /\ res.resolved /\ res.status = 200)
       => /\ Len(messages') = Len(messages) + 1
          /\ isPrefix(messages, messages')
          /\ appended.isBot
          /\ IF res.hasData /\ res.success = "false"
             THEN appended.tpl # "answer" /\ appended.arg = res.error
             ELSE IF res.hasData /\ res.hasAnswer /\ res.answer # <<>>
             THEN appended.tpl = "answer" /\ appended.body = res.answer
             ELSE /\ appended.tpl = "Error: "
                  /\ appended.arg \in {"No answer received from the AI model",
                                       "Invalid response from server"}]_vars

\* C14: for a failed POST /query the text of the appended assistant message is
\* chosen by status code / error code: status 400 gives the 'upload a document
\* first' text, status >= 500 the 'server busy' text, ECONNREFUSED the 'backend
\* unreachable' text and ECONNABORTED the 'too slow' text.
C14_FailureTextByCode ==
  [][\A req \in inflight : \A res \in QueryOutcomes :
       (querySettles(req, res) /\ ~res.resolved)
       => /\ (res.hasResponse /\ res.status = 400)
               => appended.tpl = "Bad request - please check if you have uploaded a document first."
          /\ (res.hasResponse /\ res.status >= 500)
               => appended.tpl = "Server error - the AI service might be busy. Please try again in a moment."
          /\ res.code = "ECONNREFUSED"
               => appended.tpl = "Cannot connect to server - please check if the backend is running."
          /\ res.code = "ECONNABORTED"
               => appended.tpl = "Request timed out - the AI is taking too long to respond. Please try a shorter question."]_vars

\* The cause of a failed request: an HTTP error status, a refused connection,
\* a timeout; "none" for every other outcome.
failureCause(res) ==
  IF res.resolved THEN "none"
  ELSE IF res.hasResponse THEN "status"
  ELSE IF res.code = "ECONNREFUSED" THEN "refused"
  ELSE IF res.code = "ECONNABORTED" THEN "timeout"
  ELSE "none"

\* C15: upload failures caused by an HTTP error status, by a refused
\* connection and by a timeout are shown with different messages: no step of
\* the transcript is the result of two failures with different causes.
C15_UploadFailureTextsDiffer ==
  [][\A req \in inflight : \A r1, r2 \in UploadOutcomes :
       (failureCause(r1) # "none" /\ failureCause(r2) # "none"
          /\ failureCause(r1) # failureCause(r2))
       => ~(uploadSettles(req, r1) /\ uploadSettles(req, r2))]_vars

\* A Send with a question typed while no document is usable or while loading
\* is true: the precondition violations of the chat.
sendRejected ==
  /\ picker = "none"
  /\ now < MaxTime
  /\ trim(inputText) # <<>>
  /\ (~hasUploadedFile \/ loading)

\* A failed upload leaves the transcript with one failure message at its end
\* in place of the placeholder, loading false and the document state as it was.
uploadFailureHandled(req) ==
  /\ Len(messages') >= 1
  /\ SubSeq(messages', 1, Len(messages') - 1)
       = SelectSeq(messages, LAMBDA m : m.id # req.phId)
  /\ appended.isBot
  /\ appended.tpl = "uploadFailed"
  /\ ~loading'
  /\ UNCHANGED <<hasUploadedFile, currentFile>>

\* A failed query appends one failure message, leaves loading false and the
\* document state as it was.
queryFailureHandled ==
  /\ Len(messages') = Len(messages) + 1
  /\ isPrefix(messages, messages')
  /\ appended.isBot
  /\ appended.tpl \notin {"answer", "uploading", "uploadSuccess"}
  /\ ~loading'
  /\ UNCHANGED <<hasUploadedFile, currentFile>>

\* The failures of requests are handled as C16 says (a request that settles
\* is a request the step takes out of inflight).
requestFailuresHandled ==
  /\ \A req \in inflight \ inflight' : \A res \in UploadOutcomes :
       (uploadSettles(req, res) /\ ~uploadSucceeded(res))
       => uploadFailureHandled(req)
  /\ \A req \in inflight \ inflight' : \A res \in QueryOutcomes :
       (querySettles(req, res) /\ ~queryAnswered(res)) => queryFailureHandled

\* C16 as stated: every failure path (a precondition violation, a transport
\* failure, a failure reported by the server, an empty or malformed 200
\* response; of an upload and of a query) appends exactly one explanatory
\* message and ends with loading false.
C16_EveryFailureAppendsOneMessage ==
  /\ [][requestFailuresHandled]_vars
  /\ [](sendRejected =>
          ENABLED ((sendPressed \/ sendPressedDisabled)
                     /\ Len(messages') = Len(messages) + 1))

\* C16 amended: every failure of a request that was issued appends exactly one
\* explanatory message and ends with loading false and the document state
\* unchanged; a Send that violates a precondition issues no request, appends
\* nothing and leaves the state as it was.
C16_RequestFailuresAppendOneMessage ==
  [][/\ requestFailuresHandled
     /\ (sendRejected /\ (sendPressed \/ sendPressedDisabled))
          => UNCHANGED <<messages, loading, hasUploadedFile, currentFile,
                         inflight, nup, nq>>]_vars

\* A query got a 200 response without a body: one failure message follows the
\* question and loading is false.
C16_Witness ==
  /\ Len(messages) = 3
  /\ messages[2].tpl = "user"
  /\ messages[3].tpl = "Error: "
  /\ messages[3].arg = "Invalid response from server"
  /\ hasUploadedFile
  /\ ~loading
  /\ inflight = {}

\* A user action that starts an operation: a picker dismissed with a file, or
\* an accepted Send.
operationStarted ==
  \/ \E result \in PickerResults(DocAssets) :
       ~result.threw /\ ~result.canceled /\ Len(result.assets) > 0
         /\ pickDocumentReturns(result)
  \/ \E result \in PickerResults(ImageAssets) :
       ~result.threw /\ ~result.canceled /\ Len(result.assets) > 0
         /\ pickImageReturns(result)
  \/ (sendPressed /\ trim(inputText) # <<>> /\ hasUploadedFile)

\* C17: every operation the user starts issues exactly one request (an upload
\* one POST /upload, an accepted question one POST /query), and no other step
\* issues a request: the completion of a request, failed or not, adds none.
C17_OneRequestPerOperationNoRetry ==
  [][IF operationStarted
     THEN /\ nup' + nq' = nup + nq + 1
          /\ Cardinality(inflight' \ inflight) = 1
          /\ inflight \subseteq inflight'
     ELSE /\ nup' = nup
          /\ nq' = nq
          /\ inflight' \subseteq inflight]_vars

\* An upload failed and the user started a second one: two requests were
\* issued for two operations and only the second is outstanding.
C17_Witness ==
  /\ nup = 2
  /\ nq = 0
  /\ count(messages, "uploadFailed") = 1
  /\ count(messages, "uploading") = 1
  /\ Cardinality(inflight) = 1
  /\ loading

\* The only message of the next transcript is an assistant message of
\* template tpl.
onlyMessage(tpl) ==
  /\ Len(messages') = 1
  /\ messages'[1].isBot
  /\ messages'[1].tpl = tpl

\* C18: initialization with a seed (route param hasAnalyzedFile) gives
\* hasUploadedFile true, currentFile equal to the seed's document and a
\* transcript of exactly one assistant greeting; without a seed it gives
\* hasUploadedFile false, no currentFile and a transcript of exactly one
\* assistant upload prompt; loading is false in both cases.
C18_Initialize ==
  [][\A seed \in Seeds :
       mountEffect(seed)
       => /\ ~loading'
          /\ inflight' = {}
          /\ IF seed.hasAnalyzedFile
             THEN /\ hasUploadedFile'
                  /\ currentFile' = seed.fileInfo
                  /\ onlyMessage("welcome")
             ELSE /\ ~hasUploadedFile'
                  /\ currentFile' = NoFile
                  /\ onlyMessage("uploadPrompt")]_vars

\* The screen was mounted with a seed that names its document.
C18_Witness ==
  /\ now = 0
  /\ picker = "none"
  /\ hasUploadedFile
  /\ currentFile.name = "s.pdf"
  /\ Len(messages) = 1
  /\ messages[1].tpl = "welcome"

\* C19: a Send with empty or blank text is a no-op in every state: no press of
\* the Send button can then change the transcript, the requests, loading,
\* hasUploadedFile, currentFile or the input text.
C19_BlankSendIsNoOp ==
  trim(inputText) = <<>>
    => ~ENABLED ((sendPressed \/ sendPressedDisabled)
                   /\ <<messages, inflight, nup, nq, loading, hasUploadedFile,
                        currentFile, inputText>>'
                      # <<messages, inflight, nup, nq, loading, hasUploadedFile,
                          currentFile, inputText>>)

\* Blanks were typed while a document is usable and nothing is pending: the
\* Send button can be pressed and the press is dropped.
C19_Witness ==
  /\ inputText = <<" ">>
  /\ hasUploadedFile
  /\ ~loading
  /\ picker = "none"
  /\ now < MaxTime
  /\ ENABLED sendPressedDisabled

\* The result of a picker dialog the user cancelled.
Cancelled == [threw |-> FALSE, canceled |-> TRUE, assets |-> <<>>]

\* C20: cancelling the document picker or the image picker leaves the
\* transcript, loading, hasUploadedFile, currentFile and the input text
\* unchanged and issues no request.
C20_CancelLeavesStateUnchanged ==
  [][(pickDocumentReturns(Cancelled) \/ pickImageReturns(Cancelled))
       => UNCHANGED <<messages, inputText, loading, currentFile,
                      hasUploadedFile, inflight, nup, nq>>]_vars

\* The document picker is open while the upload of an earlier pick is
\* outstanding, and the user can cancel it.
C20_Witness ==
  /\ picker = "doc"
  /\ loading
  /\ currentFile # NoFile
  /\ inflight # {}
  /\ ENABLED (pickDocumentReturns(Cancelled) /\ picker' = "none")

\* The state of the spec's session machine the flags stand for.
sessionState(pending, usable) ==
  IF pending THEN (IF usable THEN "QUERYING" ELSE "UPLOADING")
  ELSE (IF usable THEN "READY" ELSE "NO_DOCUMENT")

\* The transitions of the spec's session machine.
SessionTransitions ==
  { <<"NO_DOCUMENT", "UPLOADING">>, <<"UPLOADING", "READY">>,
    <<"UPLOADING", "NO_DOCUMENT">>, <<"READY", "QUERYING">>,
    <<"QUERYING", "READY">>, <<"READY", "NO_DOCUMENT">>,
    <<"QUERYING", "NO_DOCUMENT">> }

\* C21: with loading and hasUploadedFile mapped to NO_DOCUMENT, UPLOADING,
\* READY and QUERYING, every change of that state after initialization is one
\* of the transitions of the spec's session machine.
C21_StateChangesAreSpecTransitions ==
  [][\/ picker = "mounting"
     \/ sessionState(loading', hasUploadedFile') = sessionState(loading, hasUploadedFile)
     \/ <<sessionState(loading, hasUploadedFile),
          sessionState(loading', hasUploadedFile')>> \in SessionTransitions]_vars

\* C22: loading is true in every state in which at least one upload or query
\* request is outstanding.
C22_LoadingWhileOutstanding == inflight # {} => loading

\* The change-file reset that made the present transcript came after the
\* request req was started: the transcript begins with the prompt of a reset
\* and that prompt is younger than the message req started with.
startedBeforeReset(req) ==
  /\ Len(messages) >= 1
  /\ messages[1].tpl = "newUploadPrompt"
  /\ req.phId < messages[1].id

\* C23: after a change-file reset the completion of an upload or query that
\* was started before the reset appends no message to the new transcript.
C23_NoStaleMessageAfterReset ==
  [][\A req \in inflight \ inflight' :
       startedBeforeReset(req) => isPrefix(messages', messages)]_vars

\* C24: after a change-file reset hasUploadedFile stays false until an upload
\* started after the reset succeeds: hasUploadedFile becomes true only by the
\* completion of an upload that was not started before the reset.
C24_UsableOnlyByUploadAfterReset ==
  [][(picker # "mounting" /\ ~hasUploadedFile /\ hasUploadedFile')
       => \E req \in inflight \ inflight' :
            req.kind = "upload" /\ ~startedBeforeReset(req)]_vars

\* C25: in every state of the mounted screen in which no request is in flight,
\* currentFile is non-null if and only if hasUploadedFile is true.
C25_CurrentFileIffUsable ==
  (picker # "mounting" /\ inflight = {})
    => ((currentFile # NoFile) <=> hasUploadedFile)

\* Positions of the transcript whose message has the given id.
positionsOf(id) == { i \in 1..Len(messages) : messages[i].id = id }

\* C26: the completion of an upload removes from the transcript the one
\* placeholder this upload inserted and no other message: the messages it
\* removes are at most one, that one is the upload's own placeholder, and
\* every other message is still there, in the same order.
C26_OnlyOwnPlaceholderRemoved ==
  [][\A req \in inflight \ inflight' :
       req.kind = "upload"
       => /\ Cardinality(positionsOf(req.phId)) <= 1
          /\ \A i \in positionsOf(req.phId) :
               messages[i].tpl = "uploading" /\ messages[i].arg = req.file.name
          /\ Len(messages') >= 1
          /\ SubSeq(messages', 1, Len(messages') - 1)
               = SelectSeq(messages, LAMBDA m : m.id # req.phId)]_vars

\* C27: in the analytics screen uploadFile with no selected file issues no
\* request and leaves loading and analysisResult unchanged; with a selected
\* file it issues exactly one request, and for every outcome exactly one alert
\* is shown, loading is false afterwards and analysisResult is non-null
\* afterwards only if that upload succeeded.
C27_AnalyticsUpload ==
  [][/\ (uploadFile /\ selectedFile = NoFile)
          => UNCHANGED <<aInflight, aLoading, analysisResult>>
     /\ (uploadFile /\ selectedFile # NoFile)
          => /\ aInflight \subseteq aInflight'
             /\ aInflight' \ aInflight = {[file |-> selectedFile]}
     /\ \A req \in aInflight : \A res \in AnalysisOutcomes :
          uploadFileSettles(req, res)
          => /\ alerts' = alerts + 1
             /\ ~aLoading'
             /\ aInflight' = aInflight \ {req}
             /\ analysisResult' # NoResult
                  => (res.resolved /\ res.hasData /\ res.success = "true")]_<<vars, avars>>

\* An analysis succeeded and a later one failed: the failure's alert is the
\* last one, nothing is displayed and loading is false.
C27_Witness ==
  /\ alerts >= 2
  /\ alert[1] = "Upload failed"
  /\ analysisResult = NoResult
  /\ selectedFile # NoFile
  /\ ~aLoading
  /\ aInflight = {}

\* C28: in the analytics screen, whenever analysisResult is non-null it is the
\* result of analysing the file held in selectedFile.
C28_ResultIsOfSelectedFile ==
  analysisResult # NoResult => analysisResult.of = selectedFile

\* C29: in the signup screen the provider's account-creation call is made
\* only if email, password and confirmation are non-blank after trimming,
\* the password equals the confirmation and the password has at least 6
\* characters; when a check fails no call is made and isLoading stays false;
\* after an attempted call has settled, with success or with a provider
\* error, isLoading is false again (it is true exactly while the mounted
\* screen awaits a call).
C29_SignupCallOnlyAfterChecks ==
  /\ [](isLoading <=> \E c \in calls : c.live)
  /\ [][LET checked == /\ trim(email) # <<>>
                       /\ trim(password) # <<>>
                       /\ trim(confirmPassword) # <<>>
                       /\ password = confirmPassword
                       /\ Len(password) >= 6
            made == { c \in calls' \ calls : c.live /\ c.outcome = "pending" }
        IN /\ made # {}
                => /\ checked
                   /\ made = { [email |-> trim(email), password |-> password,
                                live |-> TRUE, outcome |-> "pending"] }
           /\ (handleSignup /\ ~checked)
                => /\ made = {}
                   /\ calls' = calls
                   /\ ~isLoading
                   /\ ~isLoading'
           /\ (handleSignup /\ checked) => (made # {} /\ isLoading')
           /\ \A c \in calls :
                (c.live /\ handleSignupResumes(c)) => ~isLoading'
       ]_<<vars, avars, authvars>>
\* A call made with a password of six characters, the first a blank, has been
\* rejected by the provider and the screen is usable again.
C29_Witness ==
  /\ shown = "stack"
  /\ password = <<" ", "a", "a", "a", "a", "a">>
  /\ authAlert = <<"Error", "Email is already registered">>
  /\ ~isLoading
  /\ calls = {}

\* C30: the root shows the tab screens only when the most recent auth-state
\* notification carried a user, shows the login/signup stack when it carried
\* none, and shows neither before the first notification; once the first
\* notification has arrived the loading flag is never true again.
C30_RootShowsLastNotification ==
  /\ [](delivered = 0 => shown = "nothing")
  /\ [](delivered > 0 => ~appLoading)
  /\ [][/\ authStateChanged
             => shown' = IF Head(notices) = NoUser THEN "stack" ELSE "tabs"
        /\ shown' # shown => (notices # <<>> /\ delivered' = delivered + 1)
        /\ ~appLoading => ~appLoading'
       ]_<<vars, avars, authvars>>
\* The stack was shown, an account was created, the tabs were shown, and
\* after a sign-out the stack is shown again.
C30_Witness ==
  /\ delivered = 3
  /\ shown = "stack"
  /\ currentUser = NoUser
  /\ authAlert = <<"Success", "You have been logged out.">>

====
